---- MODULE Spec2Model ----
(***************************************************************************)
(* headache: a Brainfuck parser with peephole fusion (src/src/parser.rs),  *)
(* the tree-walking Executor (src/src/executor.rs) and the x86-64 JIT      *)
(* (src/src/compiler.rs).                                                  *)
(*                                                                         *)
(* A source text is a sequence of runs [c |-> character, k |-> count]; a   *)
(* run stands for k copies of c, and the parser consumes one character at  *)
(* a time.  "c" stands for any character that is not a command.            *)
(* The tape is the 30000-cell array of the source; it is stored by its     *)
(* non-zero cells only (a cell outside the domain of the function is 0).   *)
(***************************************************************************)
EXTENDS Integers, Sequences, FiniteSets, TLC

\* ------------------------------------------------------------------ bounds
\* longest source text enumerated character by character
MaxLen == 4
\* largest |x| of the moves written inside an enumerated move-cell idiom
MaxOffset == 2

\* longest source text enumerated for a run of both backends
MaxRunLen == 2
\* most input bytes offered to a program
MaxInput == 1
\* most bytes an output stream takes
MaxOutput == 3

\* --------------------------------------------------------------- constants
MEMORY_SIZE == 30000

\* u8 arithmetic: 2^8 values
ByteRange == 256

VARIABLES
    overflow_checks,  \* build profile: does integer overflow panic (debug) or wrap (release)
    source,           \* parse: the text handed to parse, as runs
    rest,             \* parse: the characters the for loop has not read yet
    contexts,         \* parse: Vec<Vec<Instruction>>
    presult,          \* parse: "idle" | "parsing" | "Ok" | "IncompleteLoop" | "UnexpectedToken" | "Panic"
    memory,           \* Executor.memory
    index,            \* Executor.index
    input,            \* Executor.input: the bytes not read yet
    output,           \* Executor.output: the bytes written
    flushed,          \* Executor.output: how many written bytes have been flushed
    stack,            \* _execute: the active calls, each [code, pc]
    memory0,          \* history: Executor.memory when execute / _execute was called
    index0,           \* history: Executor.index when execute / _execute was called
    eresult,          \* execute: "idle" | "running" | "Ok" | "RuntimeError" | "ParseError"
    jcode,            \* compile: the generated code, one entry per dynasm! block
    jlabels,          \* compile: the position each dynamic label is bound to
    jpc,              \* generated code: the block executed next
    jmemory,          \* Executable::run: memory
    r13,              \* generated code: offset of the current cell from r12
    jinput,           \* compile: input, the bytes not read yet
    joutput,          \* compile: out, the bytes written
    jflushed,         \* compile: out, how many written bytes have been flushed
    jresult,          \* compile + run: "idle" | "compiled" | "running" | "Ok" | "RuntimeError" | "ParseError" | "CompileError" | "Panic"
    rax,              \* generated code: rax, "null" or the io::Error a thunk returned ("scratch": a leftover of the Move arithmetic)
    jerror,           \* Executable::run: the io::Error of the RuntimeError returned ("none": none)
    out_capacity,     \* the output stream: how many bytes it takes before write_all fails
    assembler,        \* the host: "ok" | "new_fails" | "finalize_fails" (what the assembler's setup and finalize do)
    buffer,           \* main: buffer, the characters accumulated by read_line
    prompt,           \* main: the prompt printed last ("": none yet)
    repl,             \* main: where the REPL is: "off" | "prompt" | "read" | "parse" | "exec" | "exited"
    lines_read,       \* main: how many times read_line has returned
    diagnostics,      \* main: how many diagnostics were printed on stderr
    exit_code,        \* the process: -1 while it runs, then its exit code
    pass,             \* the caller of parse: 0, or which of two parse calls in a row this is
    first,            \* the caller of parse: the text and the result of the first of the two calls
    opts,             \* get_mode: the command line, [file, execute, interpreter]
    mode              \* main: "unset" | "Executor" | "Interpreted" | "Err"

pvars == <<overflow_checks, source, rest, contexts, presult>>
evars == <<memory, index, input, output, flushed, stack, memory0, index0, eresult>>
jvars == <<jcode, jlabels, jpc, jmemory, r13, jinput, joutput, jflushed, jresult, rax, jerror>>
\* the streams and the host around the three components
envvars == <<out_capacity, assembler>>
\* the binary: the REPL and the process
replvars == <<buffer, prompt, repl, lines_read, diagnostics, exit_code>>
\* a caller that parses two texts in a row
passvars == <<pass, first>>
\* the command line
clivars == <<opts, mode>>
hvars == <<envvars, replvars, passvars, clivars>>
vars == <<overflow_checks, source, rest, contexts, presult,
          memory, index, input, output, flushed, stack, memory0, index0, eresult,
          jcode, jlabels, jpc, jmemory, r13, jinput, joutput, jflushed, jresult,
          rax, jerror, out_capacity, assembler,
          buffer, prompt, repl, lines_read, diagnostics, exit_code,
          pass, first, opts, mode>>

\* ------------------------------------------------------------ instructions
Move(n) == [op |-> "Move", n |-> n, body |-> <<>>]
Add(n) == [op |-> "Add", n |-> n, body |-> <<>>]
Write == [op |-> "Write", n |-> 0, body |-> <<>>]
Read == [op |-> "Read", n |-> 0, body |-> <<>>]
Loop(b) == [op |-> "Loop", n |-> 0, body |-> b]
Clear == [op |-> "Clear", n |-> 0, body |-> <<>>]
AddTo(offset) == [op |-> "AddTo", n |-> offset, body |-> <<>>]

\* ------------------------------------------------------------------ helpers
Last(s) == s[Len(s)]
Front(s) == SubSeq(s, 1, Len(s) - 1)
Abs(n) == IF n < 0 THEN -n ELSE n

\* Rust's % on signed integers truncates toward zero
RustRem(a, b) == IF a >= 0 THEN a % b ELSE -((-a) % b)

\* ------------------------------------------------------------------- parser
\* the character the for loop reads next, and the text after it
NextChar(r) == Head(r).c
Advance(r) == IF Head(r).k > 1 THEN <<[c |-> Head(r).c, k |-> Head(r).k - 1]>> \o Tail(r)
              ELSE Tail(r)

\* (mutant: looks at the first instruction of the context)
LastIs_First(ctxs, op) == /\ Last(ctxs) # <<>>
                          /\ Head(Last(ctxs)).op = op

\* contexts.last_mut().unwrap().last_mut() is Some(Instruction::<op>(n))
LastIs(ctxs, op) == /\ Last(ctxs) # <<>>
                    /\ Last(Last(ctxs)).op = op

\* *n = v on the last instruction of the last context
SetLastN(ctxs, v) ==
    [ctxs EXCEPT ![Len(ctxs)] = [@ EXCEPT ![Len(@)] = [@ EXCEPT !.n = v]]]

\* current_context.push(instruction)
PushInstr(ctxs, i) == [ctxs EXCEPT ![Len(ctxs)] = Append(@, i)]

\* *n += d on a u8 (d is 1 or -1): wraps, or panics when the build checks overflow
U8Overflows(n, d) == n + d < 0 \/ n + d >= ByteRange
U8Wrap(n) == n % ByteRange

\* 1u8.wrapping_neg()
WrappingNeg1 == U8Wrap(0 - 1)

\* (mutant: every single Add is taken for the clear idiom, even or odd)
IsClearBody_AnyAdd(instructions) ==
    /\ Len(instructions) = 1
    /\ instructions[1].op = "Add"

\* the opcodes a closing ']' appends to the enclosing context
IsClearBody(instructions) ==
    /\ Len(instructions) = 1
    /\ instructions[1].op = "Add"
    /\ instructions[1].n % 2 = 1

IsAddToBody(instructions) ==
    /\ Len(instructions) = 4
    /\ instructions[1] = Add(255)
    /\ instructions[2].op = "Move"
    /\ instructions[3] = Add(1)
    /\ instructions[4].op = "Move"
    /\ instructions[2].n = -instructions[4].n

CloseLoop(instructions) ==
    IF IsClearBody(instructions) THEN <<Clear>>
    ELSE IF IsAddToBody(instructions)
         THEN <<AddTo(instructions[2].n), Loop(instructions)>>
         ELSE <<Loop(instructions)>>

\* the characters parse matches; every other character is skipped
Commands == {">", "<", "+", "-", ".", ",", "[", "]"}

Reading(ch) == /\ presult = "parsing"
               /\ rest # <<>>
               /\ NextChar(rest) = ch

\* '>' and '<'
ParseMoveChar(ch, d) ==
    /\ Reading(ch)
    /\ rest' = Advance(rest)
    /\ contexts' = IF LastIs(contexts, "Move")
                   THEN SetLastN(contexts, Last(Last(contexts)).n + d)
                   ELSE PushInstr(contexts, Move(d))
    /\ UNCHANGED <<overflow_checks, source, presult>>

ParseIncrease == ParseMoveChar(">", 1) /\ UNCHANGED <<evars, jvars, hvars>>
ParseDecrease == ParseMoveChar("<", -1) /\ UNCHANGED <<evars, jvars, hvars>>

\* '+' and '-'
ParseAddChar(ch, d, fresh) ==
    /\ Reading(ch)
    /\ IF LastIs(contexts, "Add")
       THEN LET n == Last(Last(contexts)).n IN
            IF U8Overflows(n, d) /\ overflow_checks
            THEN /\ presult' = "Panic"
                 /\ UNCHANGED <<rest, contexts>>
            ELSE /\ contexts' = SetLastN(contexts, U8Wrap(n + d))
                 /\ rest' = Advance(rest)
                 /\ UNCHANGED presult
       ELSE /\ contexts' = PushInstr(contexts, Add(fresh))
            /\ rest' = Advance(rest)
            /\ UNCHANGED presult
    /\ UNCHANGED <<overflow_checks, source>>

ParseIncrement == ParseAddChar("+", 1, 1) /\ UNCHANGED <<evars, jvars, hvars>>
ParseDecrement == ParseAddChar("-", -1, WrappingNeg1) /\ UNCHANGED <<evars, jvars, hvars>>

\* '.' and ','
ParseIoChar(ch, instruction) ==
    /\ Reading(ch)
    /\ rest' = Advance(rest)
    /\ contexts' = PushInstr(contexts, instruction)
    /\ UNCHANGED <<overflow_checks, source, presult>>

ParseWrite == ParseIoChar(".", Write) /\ UNCHANGED <<evars, jvars, hvars>>
ParseRead == ParseIoChar(",", Read) /\ UNCHANGED <<evars, jvars, hvars>>

\* '['
ParseOpen ==
    /\ Reading("[")
    /\ rest' = Advance(rest)
    /\ contexts' = Append(contexts, <<>>)
    /\ UNCHANGED <<overflow_checks, source, presult>>
    /\ UNCHANGED <<evars, jvars, hvars>>

\* ']'
ParseClose ==
    /\ Reading("]")
    /\ LET instructions == Last(contexts)
           popped == Front(contexts)
       IN IF popped = <<>>
          THEN /\ presult' = "UnexpectedToken"
               /\ contexts' = popped
               /\ UNCHANGED rest
          ELSE /\ contexts' = [popped EXCEPT ![Len(popped)] = @ \o CloseLoop(instructions)]
               /\ rest' = Advance(rest)
               /\ UNCHANGED presult
    /\ UNCHANGED <<overflow_checks, source>>
    /\ UNCHANGED <<evars, jvars, hvars>>

\* (mutant: a character that is no command is rejected)
ParseComment_Rejects ==
    /\ presult = "parsing"
    /\ rest # <<>>
    /\ NextChar(rest) \notin Commands
    /\ presult' = "UnexpectedToken"
    /\ UNCHANGED <<overflow_checks, source, rest, contexts>>
    /\ UNCHANGED <<evars, jvars, hvars>>

\* any other character
ParseComment ==
    /\ presult = "parsing"
    /\ rest # <<>>
    /\ NextChar(rest) \notin Commands
    /\ rest' = Advance(rest)
    /\ UNCHANGED <<overflow_checks, source, contexts, presult>>
    /\ UNCHANGED <<evars, jvars, hvars>>

\* the end of the text
ParseEnd ==
    /\ presult = "parsing"
    /\ rest = <<>>
    /\ presult' = IF Len(contexts) # 1 THEN "IncompleteLoop" ELSE "Ok"
    /\ UNCHANGED <<overflow_checks, source, rest, contexts>>
    /\ UNCHANGED <<evars, jvars, hvars>>

ParseNext ==
    \/ ParseIncrease
    \/ ParseDecrease
    \/ ParseIncrement
    \/ ParseDecrement
    \/ ParseWrite
    \/ ParseRead
    \/ ParseOpen
    \/ ParseClose
    \/ ParseComment
    \/ ParseEnd

\* --------------------------------------------------------------- the tape
\* [Wrapping(0u8); MEMORY_SIZE], kept by its non-zero cells
EmptyTape == [i \in {} |-> 0]
Cell(m, i) == IF i \in DOMAIN m THEN m[i] ELSE 0
Store(m, i, v) ==
    IF v = 0 THEN [j \in (DOMAIN m) \ {i} |-> m[j]]
    ELSE [j \in (DOMAIN m) \cup {i} |-> IF j = i THEN v ELSE m[j]]

\* (mutant: an add that saturates at 255 instead of wrapping)
WrappingAdd_Saturating(a, b) == IF a + b >= ByteRange THEN ByteRange - 1 ELSE a + b

\* Wrapping<u8> += u8
WrappingAdd(a, b) == (a + b) % ByteRange

\* (mutant: the offset is not normalised before it is added to the index)
MoveIndex_NoNormalise(idx, delta) == idx + RustRem(delta, MEMORY_SIZE)

\* (mutant: the offset is cast to usize before the remainder is taken, so a
\* negative offset counts as 2^64 + delta; 2^64 mod 30000 = 21616)
MoveIndex_CastFirst(idx, delta) ==
    IF delta >= 0 THEN (idx + (delta % MEMORY_SIZE)) % MEMORY_SIZE
    ELSE (idx + (((delta % MEMORY_SIZE) + 21616) % MEMORY_SIZE)) % MEMORY_SIZE

\* let delta = (MEMORY_SIZE as isize + delta % MEMORY_SIZE as isize) as usize;
\* (self.index + delta) % MEMORY_SIZE
MoveIndex(idx, delta) ==
    (idx + (MEMORY_SIZE + RustRem(delta, MEMORY_SIZE))) % MEMORY_SIZE

\* (mutant: end of input reads as a zero byte)
ReadExact_EofIsZero(inp) ==
    IF inp = <<>> THEN [ok |-> TRUE, byte |-> 0, rest |-> inp]
    ELSE [ok |-> TRUE, byte |-> Head(inp), rest |-> Tail(inp)]

\* read_exact(&mut [0u8]) on the bytes not read yet
ReadExact(inp) ==
    IF inp = <<>> THEN [ok |-> FALSE, byte |-> 0, rest |-> inp]
    ELSE [ok |-> TRUE, byte |-> Head(inp), rest |-> Tail(inp)]

\* write_all(&[byte]) on a stream that takes cap bytes in all: the byte is
\* appended, or the call fails and the stream is as it was
WriteAll(out, cap, byte) ==
    IF Len(out) < cap THEN [ok |-> TRUE, out |-> Append(out, byte)]
    ELSE [ok |-> FALSE, out |-> out]

\* ----------------------------------------------------------------- Executor
\* (mutant: the instructions read before the end of an unfinished text are
\* run before the error is returned)
Execute_RunsPrefix ==
    /\ eresult = "idle"
    /\ presult \in {"Ok", "IncompleteLoop", "UnexpectedToken"}
    /\ IF presult \in {"Ok", "IncompleteLoop"}
       THEN /\ stack' = <<[code |-> contexts[1], pc |-> 1]>>
            /\ eresult' = "running"
       ELSE /\ stack' = stack
            /\ eresult' = "ParseError"
    /\ memory0' = memory
    /\ index0' = index
    /\ UNCHANGED <<memory, index, input, output, flushed>>
    /\ UNCHANGED <<pvars, jvars, hvars>>

\* Executor::execute: parse(code), then _execute(&instructions)
Execute ==
    /\ eresult = "idle"
    /\ presult \in {"Ok", "IncompleteLoop", "UnexpectedToken"}
    /\ IF presult = "Ok"
       THEN /\ stack' = <<[code |-> contexts[1], pc |-> 1]>>
            /\ eresult' = "running"
       ELSE /\ stack' = stack
            /\ eresult' = "ParseError"
    /\ memory0' = memory
    /\ index0' = index
    /\ UNCHANGED <<memory, index, input, output, flushed>>
    /\ UNCHANGED <<pvars, jvars, hvars>>

\* the instruction the innermost _execute call is at
AtEnd == Last(stack).pc > Len(Last(stack).code)
Current == Last(stack).code[Last(stack).pc]
Executing(op) ==
    /\ eresult = "running"
    /\ ~AtEnd
    /\ Current.op = op
\* the for loop goes on to the next instruction
Step(stk) == [stk EXCEPT ![Len(stk)].pc = @ + 1]

ExecMove ==
    /\ Executing("Move")
    /\ index' = MoveIndex(index, Current.n)
    /\ stack' = Step(stack)
    /\ UNCHANGED <<memory, input, output, flushed, eresult>>
    /\ UNCHANGED <<memory0, index0, pvars, jvars, hvars>>

ExecAdd ==
    /\ Executing("Add")
    /\ memory' = Store(memory, index, WrappingAdd(Cell(memory, index), Current.n))
    /\ stack' = Step(stack)
    /\ UNCHANGED <<index, input, output, flushed, eresult>>
    /\ UNCHANGED <<memory0, index0, pvars, jvars, hvars>>

ExecWrite ==
    /\ Executing("Write")
    /\ LET w == WriteAll(output, out_capacity, Cell(memory, index)) IN
       IF w.ok
       THEN /\ output' = w.out
            /\ flushed' = Len(w.out)
            /\ stack' = Step(stack)
            /\ UNCHANGED eresult
       ELSE /\ eresult' = "RuntimeError"
            /\ stack' = <<>>
            /\ UNCHANGED <<output, flushed>>
    /\ UNCHANGED <<memory, index, input>>
    /\ UNCHANGED <<memory0, index0, pvars, jvars, hvars>>

ExecRead ==
    /\ Executing("Read")
    /\ LET r == ReadExact(input) IN
       IF r.ok
       THEN /\ memory' = Store(memory, index, r.byte)
            /\ input' = r.rest
            /\ stack' = Step(stack)
            /\ UNCHANGED eresult
       ELSE /\ eresult' = "RuntimeError"
            /\ stack' = <<>>
            /\ UNCHANGED <<memory, input>>
    /\ UNCHANGED <<index, output, flushed>>
    /\ UNCHANGED <<memory0, index0, pvars, jvars, hvars>>

\* (mutant: an if in place of the while, the body runs once at most)
ExecLoop_Once ==
    /\ Executing("Loop")
    /\ stack' = IF Cell(memory, index) # 0
                THEN Append(Step(stack), [code |-> Current.body, pc |-> 1])
                ELSE Step(stack)
    /\ UNCHANGED <<memory, index, input, output, flushed, eresult>>
    /\ UNCHANGED <<memory0, index0, pvars, jvars, hvars>>

\* while self.memory[self.index].0 != 0 { self._execute(instructions)?; }
ExecLoop ==
    /\ Executing("Loop")
    /\ stack' = IF Cell(memory, index) # 0
                THEN Append(stack, [code |-> Current.body, pc |-> 1])
                ELSE Step(stack)
    /\ UNCHANGED <<memory, index, input, output, flushed, eresult>>
    /\ UNCHANGED <<memory0, index0, pvars, jvars, hvars>>

ExecClear ==
    /\ Executing("Clear")
    /\ memory' = Store(memory, index, 0)
    /\ stack' = Step(stack)
    /\ UNCHANGED <<index, input, output, flushed, eresult>>
    /\ UNCHANGED <<memory0, index0, pvars, jvars, hvars>>

ExecAddTo ==
    /\ Executing("AddTo")
    /\ LET to == MoveIndex(index, Current.n)
           added == Store(memory, to, WrappingAdd(Cell(memory, to), Cell(memory, index)))
       IN memory' = Store(added, index, 0)
    /\ stack' = Step(stack)
    /\ UNCHANGED <<index, input, output, flushed, eresult>>
    /\ UNCHANGED <<memory0, index0, pvars, jvars, hvars>>

\* the for loop of an _execute call is over: Ok(()) goes to the caller, which is
\* the while of a Loop (it tests the cell again) or execute itself
ExecReturn ==
    /\ eresult = "running"
    /\ AtEnd
    /\ stack' = Front(stack)
    /\ eresult' = IF Len(stack) = 1 THEN "Ok" ELSE "running"
    /\ UNCHANGED <<memory, index, input, output, flushed>>
    /\ UNCHANGED <<memory0, index0, pvars, jvars, hvars>>

ExecStep ==
    \/ ExecMove
    \/ ExecAdd
    \/ ExecWrite
    \/ ExecRead
    \/ ExecLoop
    \/ ExecClear
    \/ ExecAddTo
    \/ ExecReturn

ExecNext == Execute \/ ExecStep

\* ---------------------------------------------------------------------- JIT
\* the signed 64-bit magic constant 5037190915060954895 and the unsigned one
\* 314824432191309681 of the Move lowering, as their eight bytes, lowest first
MagicSigned == <<15, 119, 8, 246, 114, 178, 231, 69>>
MagicUnsigned == <<113, 135, 96, 47, 39, 123, 94, 4>>

\* the high 64 bits of the 128-bit product n * m (imul r64 / mul r64 leave
\* them in rdx): the carry out of the eighth byte of the product
RECURSIVE MulHighFrom(_, _, _, _)
MulHighFrom(n, m, i, carry) ==
    IF i > Len(m) THEN carry
    ELSE MulHighFrom(n, m, i + 1, (n * m[i] + carry) \div 256)
MulHigh(n, m) == MulHighFrom(n, m, 1, 0)

\* sar r64, k and shr r64, k (shr is used on non-negative values, except for
\* shr 63, which leaves the sign bit)
Sar(x, k) == x \div (2 ^ k)
Shr(x, k) == IF k = 63 THEN (IF x < 0 THEN 1 ELSE 0) ELSE x \div (2 ^ k)

\* the instructions Move(n) is lowered to, from r13 = r
JitMove(r, n) ==
    LET rcx0 == n                                  \* mov rcx, n
        rdx0 == MulHigh(rcx0, MagicSigned)         \* mov rdx, magic; mov rax, rcx; imul rdx
        rax1 == Shr(rdx0, 63)                      \* mov rax, rdx; shr rax, 63
        rdx1 == Sar(rdx0, 13) + rax1               \* sar rdx, 13; add rdx, rax
        rcx1 == rcx0 - rdx1 * 30000                \* imul rax, rdx, 30000; sub rcx, rax
        rcx2 == rcx1 + r + 30000                   \* mov rax, r13; add rcx, rax; add rcx, 30000
        rax2 == Shr(rcx2, 4)                       \* mov rax, rcx; shr rax, 4
        rdx2 == Shr(MulHigh(rax2, MagicUnsigned), 5) \* mov rdx, magic; mul rdx; shr rdx, 5
    IN rcx2 - rdx2 * 30000                         \* imul rax, rdx, 30000; sub rcx, rax; mov r13, rcx

\* add BYTE [r12 + r13], n
ByteAdd(a, b) == (a + b) % ByteRange

\* one dynasm! block of the generated code
Block(op, n, label) == [op |-> op, n |-> n, label |-> label]

\* compile_segment: asm is the assembler, its code so far and the position of
\* each dynamic label minted so far (0 while the label is not bound).
\* (A value that is used more than once is bound by a one-element set, so
\* that it is computed once.)
RECURSIVE CompileSegment(_, _), CompileInstruction(_, _)

\* let loop_label = code.new_dynamic_label(); let end_label = ...; =>loop_label; cmp; je =>end_label
OpenLoop(asm) ==
    [code |-> Append(asm.code, Block("LoopHead", 0, Len(asm.labels) + 2)),
     labels |-> asm.labels \o <<Len(asm.code) + 1, 0>>]

\* (mutant: the jump at the bottom goes to the first label minted, the top of
\* the outermost loop)
CloseLoopBlock_OuterLabel(asm, loop_label) ==
    [code |-> Append(asm.code, Block("LoopTail", 0, 1)),
     labels |-> [asm.labels EXCEPT ![loop_label + 1] = Len(asm.code) + 2]]

\* cmp; jne =>loop_label; =>end_label
CloseLoopBlock(asm, loop_label) ==
    [code |-> Append(asm.code, Block("LoopTail", 0, loop_label)),
     labels |-> [asm.labels EXCEPT ![loop_label + 1] = Len(asm.code) + 2]]

CompileLoop(loop_segment, asm) ==
    CHOOSE out \in {CloseLoopBlock(body, Len(asm.labels) + 1) :
                       body \in {CompileSegment(loop_segment, OpenLoop(asm))}} : TRUE

CompileInstruction(i, asm) ==
    CASE i.op = "Loop" -> CompileLoop(i.body, asm)
      [] i.op = "AddTo" ->
           CompileSegment(<<Loop(<<Add(255), Move(i.n), Add(1), Move(-i.n)>>)>>, asm)
      [] OTHER ->
           [code |-> Append(asm.code, Block(i.op, i.n, 0)), labels |-> asm.labels]

CompileSegment(instructions, asm0) ==
    IF instructions = <<>> THEN asm0
    ELSE CHOOSE out \in {CompileSegment(Tail(instructions), done) :
                           done \in {CompileInstruction(Head(instructions), asm) :
                                        asm \in {asm0}}} : TRUE

\* extern "sysv64" fn read: null, or the boxed io::Error of read_exact
ReadThunk(inp) ==
    LET r == ReadExact(inp)
    IN [rax |-> IF r.ok THEN "null" ELSE "UnexpectedEof", byte |-> r.byte, rest |-> r.rest]

\* extern "sysv64" fn write: null, or the boxed io::Error of write_all
WriteThunk(out, cap, byte) ==
    LET w == WriteAll(out, cap, byte)
    IN [rax |-> IF w.ok THEN "null" ELSE "WriteZero", out |-> w.out]

\* (mutant: the epilogue zeroes rax on the ->exit path as well)
Epilogue_ClearsRax(a) == "null"

\* ->exit: pop r13; pop r12; pop rbp; ret  (rax is returned as it is)
Epilogue(a) == a

\* Executable::run: if !err.is_null() { return Err(RuntimeError(*Box::from_raw(err))) } Ok(())
RunResult(err) == IF err # "null" THEN "RuntimeError" ELSE "Ok"
RunError(err) == IF err # "null" THEN err ELSE "none"

\* compile: parse(source), then the assembler, the prologue, the segment and
\* the epilogue
Compile ==
    /\ jresult = "idle"
    /\ presult \in {"Ok", "IncompleteLoop", "UnexpectedToken"}
    /\ IF presult # "Ok"
       THEN /\ jresult' = "ParseError"
            /\ UNCHANGED <<jcode, jlabels>>
       ELSE IF assembler = "new_fails"
       THEN /\ jresult' = "CompileError"
            /\ UNCHANGED <<jcode, jlabels>>
       ELSE \E asm \in {CompileSegment(contexts[1], [code |-> <<>>, labels |-> <<>>])} :
               /\ jcode' = asm.code
               /\ jlabels' = asm.labels
               /\ jresult' = "compiled"
    /\ UNCHANGED <<jpc, jmemory, r13, jinput, joutput, jflushed, rax, jerror>>
    /\ UNCHANGED <<pvars, evars, hvars>>

\* Executable::run: self.code.finalize().unwrap(), a zeroed memory, then the
\* prologue (xor r13, r13)
Run ==
    /\ jresult = "compiled"
    /\ IF assembler = "finalize_fails"
       THEN /\ jresult' = "Panic"
            /\ UNCHANGED <<jmemory, r13, jpc>>
       ELSE /\ jmemory' = EmptyTape
            /\ r13' = 0
            /\ jpc' = 1
            /\ jresult' = "running"
    /\ UNCHANGED <<jcode, jlabels, jinput, joutput, jflushed, rax, jerror>>
    /\ UNCHANGED <<pvars, evars, hvars>>

JitAt(op) ==
    /\ jresult = "running"
    /\ jpc <= Len(jcode)
    /\ jcode[jpc].op = op

JitMoveBlock ==
    /\ JitAt("Move")
    /\ r13' = JitMove(r13, jcode[jpc].n)
    /\ rax' = "scratch"
    /\ jpc' = jpc + 1
    /\ UNCHANGED <<jcode, jlabels, jmemory, jinput, joutput, jflushed, jresult, jerror>>
    /\ UNCHANGED <<pvars, evars, hvars>>

JitAddBlock ==
    /\ JitAt("Add")
    /\ jmemory' = Store(jmemory, r13, ByteAdd(Cell(jmemory, r13), jcode[jpc].n))
    /\ jpc' = jpc + 1
    /\ UNCHANGED <<jcode, jlabels, r13, jinput, joutput, jflushed, jresult, rax, jerror>>
    /\ UNCHANGED <<pvars, evars, hvars>>

\* call write::<Output>; cmp rax, 0; jne ->exit  (the thunk does not flush)
JitWriteBlock ==
    /\ JitAt("Write")
    /\ LET t == WriteThunk(joutput, out_capacity, Cell(jmemory, r13)) IN
       /\ rax' = t.rax
       /\ joutput' = t.out
       /\ IF t.rax = "null"
          THEN /\ jpc' = jpc + 1
               /\ UNCHANGED <<jresult, jerror>>
          ELSE /\ jresult' = RunResult(Epilogue(t.rax))
               /\ jerror' = RunError(Epilogue(t.rax))
               /\ UNCHANGED jpc
    /\ UNCHANGED <<jcode, jlabels, jmemory, r13, jinput, jflushed>>
    /\ UNCHANGED <<pvars, evars, hvars>>

\* call read::<Input>; cmp rax, 0; jne ->exit
JitReadBlock ==
    /\ JitAt("Read")
    /\ LET t == ReadThunk(jinput) IN
       /\ rax' = t.rax
       /\ IF t.rax = "null"
          THEN /\ jmemory' = Store(jmemory, r13, t.byte)
               /\ jinput' = t.rest
               /\ jpc' = jpc + 1
               /\ UNCHANGED <<jresult, jerror>>
          ELSE /\ jresult' = RunResult(Epilogue(t.rax))
               /\ jerror' = RunError(Epilogue(t.rax))
               /\ UNCHANGED <<jmemory, jinput, jpc>>
    /\ UNCHANGED <<jcode, jlabels, r13, joutput, jflushed>>
    /\ UNCHANGED <<pvars, evars, hvars>>

\* =>loop_label; cmp BYTE [r12 + r13], 0; je =>end_label
JitLoopHead ==
    /\ JitAt("LoopHead")
    /\ jpc' = IF Cell(jmemory, r13) = 0 THEN jlabels[jcode[jpc].label] ELSE jpc + 1
    /\ UNCHANGED <<jcode, jlabels, jmemory, r13, jinput, joutput, jflushed, jresult, rax, jerror>>
    /\ UNCHANGED <<pvars, evars, hvars>>

\* cmp BYTE [r12 + r13], 0; jne =>loop_label; =>end_label
JitLoopTail ==
    /\ JitAt("LoopTail")
    /\ jpc' = IF Cell(jmemory, r13) # 0 THEN jlabels[jcode[jpc].label] ELSE jpc + 1
    /\ UNCHANGED <<jcode, jlabels, jmemory, r13, jinput, joutput, jflushed, jresult, rax, jerror>>
    /\ UNCHANGED <<pvars, evars, hvars>>

\* mov BYTE [r12 + r13], 0
JitClearBlock ==
    /\ JitAt("Clear")
    /\ jmemory' = Store(jmemory, r13, 0)
    /\ jpc' = jpc + 1
    /\ UNCHANGED <<jcode, jlabels, r13, jinput, joutput, jflushed, jresult, rax, jerror>>
    /\ UNCHANGED <<pvars, evars, hvars>>

\* xor rax, rax; ->exit: ...; ret  and run's Ok(())
JitExit ==
    /\ jresult = "running"
    /\ jpc = Len(jcode) + 1
    /\ rax' = "null"
    /\ jresult' = RunResult(Epilogue("null"))
    /\ jerror' = RunError(Epilogue("null"))
    /\ UNCHANGED <<jcode, jlabels, jpc, jmemory, r13, jinput, joutput, jflushed>>
    /\ UNCHANGED <<pvars, evars, hvars>>

JitNext ==
    \/ Compile
    \/ Run
    \/ JitMoveBlock
    \/ JitAddBlock
    \/ JitWriteBlock
    \/ JitReadBlock
    \/ JitLoopHead
    \/ JitLoopTail
    \/ JitClearBlock
    \/ JitExit

\* ------------------------------------------------------------ source texts
Chars == {">", "<", "+", "-", ".", ",", "[", "]", "c"}

\* k copies of ch
Repeat(ch, k) == IF k = 0 THEN <<>> ELSE <<[c |-> ch, k |-> k]>>
\* the text written character by character
Text(s) == [i \in 1..Len(s) |-> [c |-> s[i], k |-> 1]]

ShortTexts == UNION {[1..n -> Chars] : n \in 0..MaxLen}

\* x > 0: x times '>';  x < 0: |x| times '<'
Moves(x) == IF x >= 0 THEN Repeat(">", x) ELSE Repeat("<", -x)
\* the ways a loop body can spell its two moves
MoveTexts == {Moves(x) : x \in (-MaxOffset..MaxOffset) \ {0}}
             \cup {Text(<<">", "<">>), Text(<<"<", ">">>)}
Prefixes == {<<>>, Text(<<"+">>), Text(<<"[">>), Text(<<",", ">">>)}
Suffixes == {<<>>, Text(<<".">>), Text(<<"]">>)}
\* [-m1+m2] between a prefix and a suffix
IdiomText(pre, m1, m2, post) ==
    pre \o Text(<<"[", "-">>) \o m1 \o Text(<<"+">>) \o m2 \o Text(<<"]">>) \o post
IdiomTexts == {IdiomText(pre, m1, m2, post) :
                  pre \in Prefixes, m1 \in MoveTexts, m2 \in MoveTexts, post \in Suffixes}

ParseSources == {Text(s) : s \in ShortTexts} \cup IdiomTexts

ExecutorIdle ==
    /\ memory = EmptyTape
    /\ index = 0
    /\ input = <<>>
    /\ output = <<>>
    /\ flushed = 0
    /\ stack = <<>>
    /\ memory0 = EmptyTape
    /\ index0 = 0
    /\ eresult = "idle"

JitIdle ==
    /\ jcode = <<>>
    /\ jlabels = <<>>
    /\ jpc = 0
    /\ jmemory = EmptyTape
    /\ r13 = 0
    /\ jinput = <<>>
    /\ joutput = <<>>
    /\ jflushed = 0
    /\ jresult = "idle"
    /\ rax = "null"
    /\ jerror = "none"

\* no earlier parse call, no command line
NoFirst == [source |-> <<>>, presult |-> "idle", contexts |-> <<>>]
NoFile == [given |-> FALSE, readable |-> FALSE, content |-> <<>>]
NoString == [given |-> FALSE, content |-> <<>>]
NoOpts == [file |-> NoFile, execute |-> NoString, interpreter |-> FALSE]

\* an output stream that takes MaxOutput bytes, a host whose assembler works
HostIdle ==
    /\ out_capacity = MaxOutput
    /\ assembler = "ok"
    /\ buffer = <<>>
    /\ prompt = ""
    /\ repl = "off"
    /\ lines_read = 0
    /\ diagnostics = 0
    /\ exit_code = -1
    /\ pass = 0
    /\ first = NoFirst
    /\ opts = NoOpts
    /\ mode = "unset"

InitParse ==
    /\ overflow_checks \in BOOLEAN
    /\ source \in ParseSources
    /\ rest = source
    /\ contexts = <<<<>>>>
    /\ presult = "parsing"
    /\ ExecutorIdle
    /\ JitIdle
    /\ HostIdle

SpecParse == InitParse /\ [][ParseNext]_vars

\* ------------------------------------------------- both backends on one text
InputBytes == {1, 255}
Inputs == UNION {[1..n -> InputBytes] : n \in 0..MaxInput}

RunShortTexts == UNION {[1..n -> Chars] : n \in 0..MaxRunLen}

\* +++[-m1+m2]. for the spellings of the move-cell idiom
RunIdiomMoves ==
    {<<Moves(x), Moves(-x)>> : x \in (-MaxOffset..MaxOffset) \ {0}}
    \cup {<<Text(<<">", "<">>), Text(<<">", "<">>)>>,
          <<Text(<<"<", ">">>), Text(<<">", "<">>)>>}
RunIdiomTexts ==
    {IdiomText(Repeat("+", 3), m[1], m[2], Text(<<".">>)) : m \in RunIdiomMoves}

\* ,[.,]   ,>,<[->+<]>.   ++[-].   +[]   >+[<]>.
CatText == Text(<<",", "[", ".", ",", "]">>)
SumText == Text(<<",", ">", ",", "<", "[", "-", ">", "+", "<", "]", ">", ".">>)
ClearText == Text(<<"+", "+", "[", "-", "]", ".">>)
ForeverText == Text(<<"+", "[", "]">>)
NestedText == Text(<<"+", "[", "[", "-", ">", "]", "<", "]", ".">>)
\* +[[.,]]: a Write and a Read inside two loops
NestedIoText == Text(<<"+", "[", "[", ".", ",", "]", "]">>)

\* moves longer than the tape: <d moves> + . <e moves> .
LongMoves == {-30001, 60000}
LongMoveTexts ==
    {Moves(d) \o Text(<<"+", ".">>) \o Moves(e) \o Text(<<".">>) :
        d \in LongMoves, e \in {-1, 1}}

\* output streams that take fewer bytes than the program writes
SmallCapacities == {0, 1}

RunJobs ==
    {[text |-> t, input |-> i, capacity |-> MaxOutput] :
        t \in {Text(x) : x \in RunShortTexts} \cup RunIdiomTexts
              \cup {CatText, SumText, ClearText, ForeverText, NestedText, NestedIoText},
        i \in Inputs}
    \cup {[text |-> t, input |-> i, capacity |-> c] :
            t \in {CatText, NestedIoText, Text(<<".", "+">>)}, i \in Inputs,
            c \in SmallCapacities}
LongRunJobs ==
    RunJobs \cup {[text |-> t, input |-> <<>>, capacity |-> MaxOutput] : t \in LongMoveTexts}

\* a new Executor (Executor::new), nothing compiled, no text handed over yet
InitRun ==
    /\ overflow_checks \in BOOLEAN
    /\ source = <<>>
    /\ rest = <<>>
    /\ contexts = <<<<>>>>
    /\ presult = "idle"
    /\ ExecutorIdle
    /\ JitIdle
    /\ HostIdle

\* the caller hands the same text and the same input bytes to
\* Executor::execute and to compile (as src/src/test/test_compiled.rs does for
\* compile)
CallBackends(jobs) ==
    /\ presult = "idle"
    /\ \E job \in jobs :
          /\ source' = job.text
          /\ rest' = job.text
          /\ input' = job.input
          /\ jinput' = job.input
          /\ out_capacity' = job.capacity
    /\ presult' = "parsing"
    /\ UNCHANGED <<overflow_checks, contexts, assembler, replvars, passvars, clivars>>
    /\ UNCHANGED <<memory, index, output, flushed, stack, memory0, index0, eresult>>
    /\ UNCHANGED <<jcode, jlabels, jpc, jmemory, r13, joutput, jflushed, jresult, rax, jerror>>

CallRun == CallBackends(RunJobs)
CallLongRun == CallBackends(LongRunJobs)

RunNext == CallRun \/ ParseNext \/ ExecNext \/ JitNext
LongRunNext == CallLongRun \/ ParseNext \/ ExecNext \/ JitNext

SpecRun == InitRun /\ [][RunNext]_vars

\* the same, with the texts whose moves are longer than the tape
SpecLongRun == InitRun /\ [][LongRunNext]_vars

\* nothing stops while it can take a step: parse, the interpreter and the
\* generated code run until they return
FairSpecRun == SpecRun /\ WF_vars(RunNext)

\* ------------------------------------ Executor::execute on a used Executor
\* cell values and pointer positions an earlier execute call can have left
CellSamples == {0, 1, 2, 127, 128, 255}
Pointers == {0, 1, 29999}

\* the tape with value a in cell p and value b in the cell at offset x from p
\* (the same cell when x is a multiple of the tape size)
TwoCells(p, a, x, b) == Store(Store(EmptyTape, (p + x) % MEMORY_SIZE, b), p, a)

\* [-m+n] and nothing else, the two moves being x and -x
PureIdiom(x) == IdiomText(<<>>, Moves(x), Moves(-x), <<>>)

ShortOffsets == (-MaxOffset..MaxOffset) \ {0}
\* offsets of the size of the tape: a multiple of it in each direction, and
\* one that is not
LongOffsets == {30000, -30000, -29999}
IdiomOffsets == ShortOffsets \cup LongOffsets

ExecuteJobs ==
    {[text |-> PureIdiom(x), input |-> <<>>, index |-> p, memory |-> TwoCells(p, a, x, b)] :
        x \in ShortOffsets, p \in Pointers, a \in CellSamples, b \in CellSamples}
    \cup {[text |-> PureIdiom(x), input |-> <<>>, index |-> 0, memory |-> TwoCells(0, 1, x, 1)] :
        x \in LongOffsets}
    \cup {[text |-> t, input |-> i, index |-> 0, memory |-> EmptyTape] :
        t \in {CatText, SumText, ClearText, NestedText, Text(<<"c", ".">>)}, i \in Inputs}

\* an Executor as earlier calls of execute left it, and the text of this call
InitExecute ==
    /\ overflow_checks \in BOOLEAN
    /\ \E job \in ExecuteJobs :
          /\ source = job.text
          /\ input = job.input
          /\ memory = job.memory
          /\ index = job.index
    /\ rest = source
    /\ contexts = <<<<>>>>
    /\ presult = "parsing"
    /\ output = <<>>
    /\ flushed = 0
    /\ stack = <<>>
    /\ memory0 = memory
    /\ index0 = index
    /\ eresult = "idle"
    /\ JitIdle
    /\ HostIdle

ExecuteNext == ParseNext \/ ExecNext

SpecExecute == InitExecute /\ [][ExecuteNext]_vars

\* ------------------------------------------- _execute on given instructions
OddAdds == {1, 3, 127, 129, 255}
Deltas == {0, 1, -1, 29999, -29999, 30000, -30000, 30001, -30001, 60001, -60001}

\* Loop([Add(n)]) for odd n (the loops the parser replaces by Clear), Clear,
\* Move(d) then Move(-d), and a sequence with the other instructions
IrJobs ==
    {[instructions |-> <<Loop(<<Add(n)>>)>>, input |-> <<>>, index |-> 29999,
      memory |-> TwoCells(29999, v, 1, 9)] : n \in {255}, v \in 0..(ByteRange - 1)}
    \cup {[instructions |-> <<Loop(<<Add(n)>>)>>, input |-> <<>>, index |-> p,
           memory |-> TwoCells(p, v, 1, 9)] : n \in OddAdds, v \in CellSamples, p \in Pointers}
    \cup {[instructions |-> <<Clear>>, input |-> <<>>, index |-> p,
           memory |-> TwoCells(p, v, 1, 9)] : v \in CellSamples, p \in Pointers}
    \cup {[instructions |-> <<Move(d), Move(-d)>>, input |-> <<>>, index |-> p,
           memory |-> TwoCells(p, 5, 1, 9)] : d \in Deltas, p \in Pointers}
    \cup {[instructions |-> <<Read, Write, AddTo(-1)>>, input |-> i, index |-> 0,
           memory |-> EmptyTape] : i \in Inputs}

\* (parse is not called here, and Wrapping<u8> wraps under every build profile)
InitIr ==
    /\ overflow_checks = FALSE
    /\ source = <<>>
    /\ rest = <<>>
    /\ contexts = <<<<>>>>
    /\ presult = "idle"
    /\ ExecutorIdle
    /\ JitIdle
    /\ HostIdle

\* self._execute(&instructions) on an Executor as earlier calls left it
ExecuteInstructions ==
    /\ eresult = "idle"
    /\ presult = "idle"
    /\ \E job \in IrJobs :
          /\ contexts' = <<job.instructions>>
          /\ stack' = <<[code |-> job.instructions, pc |-> 1]>>
          /\ input' = job.input
          /\ memory' = job.memory
          /\ index' = job.index
          /\ memory0' = job.memory
          /\ index0' = job.index
    /\ presult' = "Ok"
    /\ eresult' = "running"
    /\ UNCHANGED <<overflow_checks, source, rest, output, flushed>>
    /\ UNCHANGED <<jvars, hvars>>

IrNext == ExecuteInstructions \/ ExecStep

SpecIr == InitIr /\ [][IrNext]_vars

\* _execute runs until it returns
FairSpecIr == SpecIr /\ WF_vars(IrNext)

\* ------------------------------------------------- reading a text by position
RECURSIVE TextLen(_)
TextLen(r) == IF r = <<>> THEN 0 ELSE Head(r).k + TextLen(Tail(r))

RECURSIVE CharAt(_, _)
CharAt(r, i) == IF i <= Head(r).k THEN Head(r).c ELSE CharAt(Tail(r), i - Head(r).k)

\* how many characters of source the for loop has consumed
Consumed == TextLen(source) - TextLen(rest)

\* ---------------------------------------------------------------- C2
\* C2: when parse closes a loop whose body is [Add(255), Move(x), Add(1),
\* Move(y)] with x == -y, the enclosing sequence grows by exactly the one
\* opcode AddTo(x); Loop(body) is not appended as well.
C2_OnlyAddTo ==
    [][(/\ ParseClose
        /\ Len(contexts) > 1
        /\ IsAddToBody(Last(contexts)))
       => (/\ Len(contexts') = Len(contexts) - 1
           /\ Last(contexts') =
                Append(contexts[Len(contexts) - 1], AddTo(Last(contexts)[2].n)))]_vars

\* ---------------------------------------------------------------- C3
\* the bracket depth after reading the text r from depth d, or -1 when some
\* ']' is read at depth 0
RECURSIVE ScanBrackets(_, _)
ScanBrackets(r, d) ==
    IF r = <<>> THEN d
    ELSE IF Head(r).c = "[" THEN ScanBrackets(Tail(r), d + Head(r).k)
    ELSE IF Head(r).c = "]"
         THEN IF Head(r).k > d THEN -1 ELSE ScanBrackets(Tail(r), d - Head(r).k)
    ELSE ScanBrackets(Tail(r), d)

BracketVerdict(r) ==
    IF ScanBrackets(r, 0) = -1 THEN "UnexpectedToken"
    ELSE IF ScanBrackets(r, 0) > 0 THEN "IncompleteLoop"
    ELSE "Ok"

\* C3: parse returns UnexpectedToken exactly when some ']' is read while no
\* '[' is open, IncompleteLoop exactly when there is none and a '[' is still
\* open at the end of the text, and Ok in every other case.
C3_BracketErrors ==
    presult # "parsing" => presult = BracketVerdict(source)

\* ---------------------------------------------------------------- C4
\* the position of the last consumed character that is a command other than
\* '+' and '-' (0 when there is none)
RunStart ==
    LET stops == {i \in 1..Consumed : CharAt(source, i) \notin {"+", "-", "c"}}
    IN IF stops = {} THEN 0 ELSE CHOOSE i \in stops : \A j \in stops : j <= i

CountInRun(ch) == Cardinality({i \in (RunStart + 1)..Consumed : CharAt(source, i) = ch})

\* C4: parse never aborts on a run of '+' and '-', and while such a run is
\* being read the last opcode of the current context is the single
\* Add((count of '+' - count of '-') mod 256).
C4_AddRunWraps ==
    /\ presult # "Panic"
    /\ (presult \in {"parsing", "Ok", "IncompleteLoop"}
        /\ CountInRun("+") + CountInRun("-") > 0)
       => /\ LastIs(contexts, "Add")
          /\ Last(Last(contexts)).n = (CountInRun("+") - CountInRun("-")) % ByteRange

\* ---------------------------------------------------------------- C5
RECURSIVE NoAdjacent(_)
NoAdjacent(seq) ==
    /\ \A i \in 1..(Len(seq) - 1) :
          ~(seq[i].op = seq[i + 1].op /\ seq[i].op \in {"Move", "Add"})
    /\ \A i \in 1..Len(seq) : seq[i].op = "Loop" => NoAdjacent(seq[i].body)

\* C5: no sequence of the IR (the open contexts while parsing, the returned
\* top level, and every Loop body in them) has two adjacent Move or two
\* adjacent Add.
C5_NoAdjacentMoveOrAdd ==
    \A i \in 1..Len(contexts) : NoAdjacent(contexts[i])

\* a text whose '>' and '+' were fused has been parsed
C5_Witness ==
    /\ presult = "Ok"
    /\ contexts = <<<<Move(2), Add(2)>>>>

\* ---------------------------------------------------------------- C1
Finished(r) == r \in {"Ok", "RuntimeError", "ParseError"}

\* C1: on the same text and the same input bytes the Executor and the
\* generated code end the same way with the same output (and the same input
\* left), and one of them ends exactly when the other does.
C1_BackendsAgree ==
    /\ []((Finished(eresult) /\ Finished(jresult))
            => (eresult = jresult /\ output = joutput /\ input = jinput))
    /\ (Finished(eresult) ~> Finished(jresult))
    /\ (Finished(jresult) ~> Finished(eresult))

\* ---------------------------------------------------------------- C6
\* what execute has done to the text [-m+n] of offset x when it has returned
MoveCellDone(x) ==
    LET p == index0
        t == (p + x) % MEMORY_SIZE
    IN /\ index = p
       /\ Cell(memory, p) = 0
       /\ Cell(memory, t) = (Cell(memory0, p) + Cell(memory0, t)) % ByteRange

\* the move-cell idiom of every offset in xs ends (the Loop the parser leaves
\* after AddTo is never entered, no error) with cell p at 0, the cell at
\* offset x at (a + b) mod 256 and the pointer at p
MoveCellIdiom(xs) ==
    \A x \in xs :
        source = PureIdiom(x)
            => /\ Len(stack) <= 1
               /\ eresult \in {"idle", "running", "Ok"}
               /\ eresult = "Ok" => MoveCellDone(x)

\* C6 (as stated): for every x # 0.
C6_MoveCellEveryOffset == MoveCellIdiom(IdiomOffsets)

\* C6 (amended): for every x that is not a multiple of the tape size.
C6_MoveCellOffsetNotMultiple ==
    MoveCellIdiom({x \in IdiomOffsets : x % MEMORY_SIZE # 0})

\* [-<<+>>] was executed at cell 0 with 255 there and 2 in cell 29998
C6_Witness ==
    /\ source = PureIdiom(-2)
    /\ eresult = "Ok"
    /\ index0 = 0 /\ Cell(memory0, 0) = 255 /\ Cell(memory0, 29998) = 2
    /\ index = 0 /\ Cell(memory, 0) = 0 /\ Cell(memory, 29998) = 1

\* ---------------------------------------------------------------- C7
OddAddLoop == \E n \in 0..(ByteRange - 1) : n % 2 = 1 /\ contexts = <<<<Loop(<<Add(n)>>)>>>>
ClearAlone == contexts = <<<<Clear>>>>

\* C7: Loop([Add(n)]) with n odd returns, and when it has the current cell is
\* 0 and the pointer, every other cell, the input and the output are as they
\* were: the effect of Clear.
C7_OddAddLoopIsClear ==
    /\ []((OddAddLoop \/ ClearAlone) /\ eresult = "Ok"
            => /\ memory = Store(memory0, index0, 0)
               /\ index = index0
               /\ output = <<>>)
    /\ []((OddAddLoop \/ ClearAlone) => <>(eresult = "Ok"))

\* Loop([Add(3)]) has returned from a cell that held 255
C7_Witness ==
    /\ contexts = <<<<Loop(<<Add(3)>>)>>>>
    /\ eresult = "Ok"
    /\ Cell(memory0, index0) = 255
    /\ memory = Store(memory0, index0, 0)

\* ---------------------------------------------------------------- C9
MovePair == \E d \in Deltas : contexts = <<<<Move(d), Move(-d)>>>>

\* C9: after Move(d) then Move(-d) the pointer and the tape are as before.
C9_MoveThenMoveBack ==
    (MovePair /\ eresult = "Ok") => (index = index0 /\ memory = memory0)

\* Move(-30001) then Move(30001) has returned to cell 0
C9_Witness ==
    /\ contexts = <<<<Move(-30001), Move(30001)>>>>
    /\ eresult = "Ok"
    /\ index0 = 0
    /\ index = 0

\* ---------------------------------------------------------------- C8
OnTape(i) == i \in 0..(MEMORY_SIZE - 1)

\* C8: after every step the data pointer of the Executor and of the generated
\* code is in [0, 30000) and so is every cell written; a Move(d) sets the
\* pointer to the non-negative (p + d) mod 30000.
C8_PointerStaysOnTape ==
    [][/\ OnTape(index') /\ OnTape(r13')
       /\ \A i \in (DOMAIN memory') \cup (DOMAIN jmemory') : OnTape(i)
       /\ ExecMove => index' = (index + Current.n) % MEMORY_SIZE
       /\ JitMoveBlock => r13' = (r13 + jcode[jpc].n) % MEMORY_SIZE]_vars

\* both backends have moved 30001 cells to the left from cell 0 and written
C8_Witness ==
    /\ presult = "Ok"
    /\ contexts[1] # <<>>
    /\ Head(contexts[1]) = Move(-30001)
    /\ index = 29999 /\ 29999 \in DOMAIN memory
    /\ r13 = 29999 /\ 29999 \in DOMAIN jmemory

\* ---------------------------------------------------------------- C10
\* C10: a Read at the end of the input stops the run with RuntimeError, the
\* cell, the pointer and the output as they were, and nothing executes after
\* it; a Read with a byte available consumes exactly that byte into the
\* current cell.  In the Executor and in the generated code.
C10_ReadAtEndOfInput ==
    [][/\ (ExecRead /\ input = <<>>)
            => (eresult' = "RuntimeError" /\ UNCHANGED <<memory, index, input, output>>)
       /\ (ExecRead /\ input # <<>>)
            => /\ input' = Tail(input)
               /\ memory' = Store(memory, index, Head(input))
               /\ eresult' = "running"
       /\ eresult = "RuntimeError" => UNCHANGED evars
       /\ (JitReadBlock /\ jinput = <<>>)
            => (jresult' = "RuntimeError" /\ UNCHANGED <<jmemory, r13, jinput, joutput>>)
       /\ (JitReadBlock /\ jinput # <<>>)
            => /\ jinput' = Tail(jinput)
               /\ jmemory' = Store(jmemory, r13, Head(jinput))
               /\ jresult' = "running"
       /\ jresult = "RuntimeError" => UNCHANGED jvars]_vars

\* ,[.,] with one input byte: both backends wrote it and failed on the second Read
C10_Witness ==
    /\ source = CatText
    /\ eresult = "RuntimeError" /\ output = <<255>> /\ input = <<>>
    /\ jresult = "RuntimeError" /\ joutput = <<255>> /\ jinput = <<>>
    /\ Cell(memory, 0) = 255 /\ Cell(jmemory, 0) = 255

\* ---------------------------------------------------------------- C11
\* a thunk call of this step returned a non-null error pointer
ThunkFailed ==
    \/ JitReadBlock /\ ReadThunk(jinput).rax # "null"
    \/ JitWriteBlock /\ WriteThunk(joutput, out_capacity, Cell(jmemory, r13)).rax # "null"

\* C11: Executable::run returns RuntimeError exactly when a thunk call of the
\* generated code returned a non-null error, with that thunk's error, the
\* tape, the pointer and the streams as the call left them, and nothing of
\* the generated code runs afterwards; run returns Ok only from the end of
\* the program, no thunk call having failed.
C11_RunReportsThunkError ==
    [][/\ (jresult = "running" /\ jresult' = "RuntimeError") <=> ThunkFailed
       /\ (JitReadBlock /\ ReadThunk(jinput).rax # "null")
            => (jerror' = "UnexpectedEof" /\ UNCHANGED <<jpc, jmemory, r13, jinput, joutput>>)
       /\ (JitWriteBlock /\ WriteThunk(joutput, out_capacity, Cell(jmemory, r13)).rax # "null")
            => (jerror' = "WriteZero" /\ UNCHANGED <<jpc, jmemory, r13, jinput, joutput>>)
       /\ jresult = "RuntimeError" => UNCHANGED jvars
       /\ (jresult = "running" /\ jresult' = "Ok")
            => (jpc = Len(jcode) + 1 /\ jerror' = "none" /\ ~ThunkFailed)
       /\ (jresult = "running" /\ jpc = Len(jcode) + 1 /\ jresult' # jresult)
            => jresult' = "Ok"]_vars

\* +[[.,]] with one input byte and an output stream that takes one byte: the
\* second Write, inside both loops, failed and run returned its error
C11_Witness ==
    /\ source = NestedIoText
    /\ out_capacity = 1
    /\ jresult = "RuntimeError"
    /\ jerror = "WriteZero"
    /\ joutput = <<1>>
    /\ jinput = <<>>
    /\ jpc = 4

\* ---------------------------------------------------------------- C12
\* C12: in both backends a Write that succeeds appends the byte of the
\* current cell to the output, after the bytes written before it, and the
\* output is flushed before the next opcode: every byte written so far is
\* observable.
C12_WriteIsFlushed ==
    [][/\ (ExecWrite /\ eresult' = "running")
            => (/\ output' = Append(output, Cell(memory, index))
                /\ flushed' = Len(output'))
       /\ (JitWriteBlock /\ jresult' = "running")
            => (/\ joutput' = Append(joutput, Cell(jmemory, r13))
                /\ jflushed' = Len(joutput'))]_vars

\* ----------------------------------------------------------------- the REPL
\* main, Mode::Interpreted.  The lines typed are drawn from ReplLines;
\* read_line appends the line and its newline to buffer, and appends nothing
\* at the end of stdin.
MaxLines == 3

Newline == "\n"
ReplLines ==
    {<<"+">>, <<"[", "-">>, <<"]">>, <<">", ".">>,
     <<"[", "e", "x">>, <<"i", "t", "]">>, <<"e", "x", "i", "t">>,
     <<",">>, <<"[", "-", ">", "+", "<", "]">>}
\* what one read_line call appends
ReadLines == {Append(l, Newline) : l \in ReplLines} \cup {<<>>}

\* (mutant: starts_with instead of contains)
Contains_StartsWith(buf, word) ==
    /\ Len(buf) >= Len(word)
    /\ SubSeq(buf, 1, Len(word)) = word

\* buffer.contains(word)
Contains(buf, word) ==
    \E i \in 1..(Len(buf) - Len(word) + 1) : SubSeq(buf, i, i + Len(word) - 1) = word

\* (mutant: the continuation prompt is never printed)
PromptFor_Primary(buf) == ">"

\* if buffer.is_empty() { print!(">") } else { print!("==>") }
PromptFor(buf) == IF buf = <<>> THEN ">" ELSE "==>"

\* (mutant: the buffer is cleared after every parse)
BufferAfter_Clear(result, buf) == <<>>

\* Err(IncompleteLoop) => continue; every other arm goes on to buffer.clear()
BufferAfter(result, buf) == IF result = "IncompleteLoop" THEN buf ELSE <<>>

\* execute_with_state(&instructions, &mut state): the instructions run on the
\* tape and the pointer of state
ExecuteWithState(instructions) == <<[code |-> instructions, pc |-> 1]>>

\* the REPL starts: let mut buffer = String::new(); let mut state = State::new()
InitRepl ==
    /\ overflow_checks \in BOOLEAN
    /\ source = <<>>
    /\ rest = <<>>
    /\ contexts = <<<<>>>>
    /\ presult = "idle"
    /\ memory = EmptyTape
    /\ index = 0
    /\ input \in Inputs
    /\ output = <<>>
    /\ flushed = 0
    /\ stack = <<>>
    /\ memory0 = EmptyTape
    /\ index0 = 0
    /\ eresult = "idle"
    /\ JitIdle
    /\ out_capacity \in {1, MaxOutput}
    /\ assembler = "ok"
    /\ buffer = <<>>
    /\ prompt = ""
    /\ repl = "prompt"
    /\ lines_read = 0
    /\ diagnostics = 0
    /\ exit_code = -1
    /\ pass = 0
    /\ first = NoFirst
    /\ opts = NoOpts
    /\ mode = "Interpreted"

\* print!(">") or print!("==>"); stdout().flush()
ReplPrompt ==
    /\ repl = "prompt"
    /\ prompt' = PromptFor(buffer)
    /\ repl' = "read"
    /\ UNCHANGED <<buffer, lines_read, diagnostics, exit_code>>
    /\ UNCHANGED <<pvars, evars, jvars, envvars, passvars, clivars>>

\* reader.read_line(&mut buffer); if buffer.contains("exit") { exit(0) };
\* parse(&buffer) is called
ReplReadLine ==
    /\ repl = "read"
    /\ lines_read < MaxLines
    /\ \E line \in ReadLines : buffer' = buffer \o line
    /\ lines_read' = lines_read + 1
    /\ IF Contains(buffer', <<"e", "x", "i", "t">>)
       THEN /\ repl' = "exited"
            /\ exit_code' = 0
            /\ UNCHANGED <<source, rest, contexts, presult>>
       ELSE /\ repl' = "parse"
            /\ source' = Text(buffer')
            /\ rest' = Text(buffer')
            /\ contexts' = <<<<>>>>
            /\ presult' = "parsing"
            /\ UNCHANGED exit_code
    /\ UNCHANGED <<overflow_checks, prompt, diagnostics>>
    /\ UNCHANGED <<evars, jvars, envvars, passvars, clivars>>

\* (mutant: the state is made anew for every input)
ReplDispatch_FreshState ==
    /\ repl = "parse"
    /\ presult = "Ok"
    /\ stack' = ExecuteWithState(contexts[1])
    /\ eresult' = "running"
    /\ memory' = EmptyTape
    /\ index' = 0
    /\ memory0' = EmptyTape
    /\ index0' = 0
    /\ repl' = "exec"
    /\ UNCHANGED <<input, output, flushed, buffer, diagnostics, exit_code>>
    /\ UNCHANGED <<prompt, lines_read>>
    /\ UNCHANGED <<pvars, jvars, envvars, passvars, clivars>>

\* match parse(&buffer): Ok => execute_with_state; Err(IncompleteLoop) =>
\* continue; Err(_) => eprintln!, then buffer.clear().  (A panic of parse
\* ends the process with code 101.)
ReplDispatch ==
    /\ repl = "parse"
    /\ presult \in {"Ok", "IncompleteLoop", "UnexpectedToken", "Panic"}
    /\ IF presult = "Ok"
       THEN /\ stack' = ExecuteWithState(contexts[1])
            /\ eresult' = "running"
            /\ memory0' = memory
            /\ index0' = index
            /\ repl' = "exec"
            /\ UNCHANGED <<buffer, diagnostics, exit_code>>
       ELSE IF presult = "Panic"
       THEN /\ repl' = "exited"
            /\ exit_code' = 101
            /\ UNCHANGED <<stack, eresult, memory0, index0, buffer, diagnostics>>
       ELSE /\ buffer' = BufferAfter(presult, buffer)
            /\ diagnostics' = IF presult = "UnexpectedToken" THEN diagnostics + 1
                              ELSE diagnostics
            /\ repl' = "prompt"
            /\ UNCHANGED <<stack, eresult, memory0, index0, exit_code>>
    /\ UNCHANGED <<memory, index, input, output, flushed>>
    /\ UNCHANGED <<prompt, lines_read>>
    /\ UNCHANGED <<pvars, jvars, envvars, passvars, clivars>>

\* execute_with_state has returned: buffer.clear(), and the loop goes round
ReplExecuted ==
    /\ repl = "exec"
    /\ eresult = "Ok"
    /\ buffer' = BufferAfter(presult, buffer)
    /\ eresult' = "idle"
    /\ repl' = "prompt"
    /\ UNCHANGED <<memory, index, input, output, flushed, stack, memory0, index0>>
    /\ UNCHANGED <<prompt, lines_read, diagnostics, exit_code>>
    /\ UNCHANGED <<pvars, jvars, envvars, passvars, clivars>>

\* a runtime error ends the REPL: the process exits with code 1
ReplRuntimeError ==
    /\ repl = "exec"
    /\ eresult = "RuntimeError"
    /\ repl' = "exited"
    /\ exit_code' = 1
    /\ UNCHANGED <<buffer, prompt, lines_read, diagnostics>>
    /\ UNCHANGED <<pvars, evars, jvars, envvars, passvars, clivars>>

ReplNext ==
    \/ ReplPrompt
    \/ ReplReadLine
    \/ ParseNext
    \/ ReplDispatch
    \/ ExecStep
    \/ ReplExecuted
    \/ ReplRuntimeError

SpecRepl == InitRepl /\ [][ReplNext]_vars

\* ---------------------------------------------------------------- C13
\* C13: when the REPL has processed a line, the buffer is the whole
\* accumulated text (the text handed to parse) if parse returned
\* IncompleteLoop, and empty in every other case.
C13_BufferKeptOnlyWhenIncomplete ==
    (repl \in {"prompt", "read"} /\ lines_read > 0)
        => IF presult = "IncompleteLoop"
           THEN buffer # <<>> /\ Text(buffer) = source
           ELSE buffer = <<>>

\* two lines are buffered under an open '['
C13_Witness ==
    /\ repl = "prompt"
    /\ lines_read = 2
    /\ presult = "IncompleteLoop"
    /\ buffer = <<"[", "-", Newline, "+", Newline>>

\* ---------------------------------------------------------------- C14
\* C14: the tape and the pointer change only while the opcodes of an input
\* that parsed are executed, and that execution starts from the tape and the
\* pointer as they were left; an input whose parse fails starts no execution.
C14_TapePersists ==
    [][/\ (memory' # memory \/ index' # index)
            => (repl = "exec" /\ presult = "Ok" /\ ExecStep)
       /\ stack' # stack => presult = "Ok"
       /\ (ReplDispatch /\ presult = "Ok")
            => (memory0' = memory /\ index0' = index /\ UNCHANGED <<memory, index>>)]_vars

\* '+' was executed, then '>.': cell 0 still holds 1
C14_Witness ==
    /\ repl = "prompt"
    /\ lines_read = 2
    /\ presult = "Ok"
    /\ Cell(memory, 0) = 1
    /\ index = 1
    /\ output = <<0>>

\* ---------------------------------------------------------------- C15
\* C15: the prompt is '==>' exactly when the parse before it returned
\* IncompleteLoop, and '>' otherwise (no parse yet, Ok, UnexpectedToken).
C15_ContinuationPrompt ==
    [][ReplPrompt => prompt' = IF presult = "IncompleteLoop" THEN "==>" ELSE ">"]_vars

\* '==>' was printed after a first line that left a '[' open
C15_Witness ==
    /\ prompt = "==>"
    /\ repl = "read"
    /\ lines_read = 1
    /\ presult = "IncompleteLoop"

\* ---------------------------------------------------------------- C16
HasExit(buf) ==
    \E i \in 1..(Len(buf) - 3) :
        buf[i] = "e" /\ buf[i + 1] = "x" /\ buf[i + 2] = "i" /\ buf[i + 3] = "t"

\* C16: a read_line that leaves 'exit' somewhere in the buffer ends the REPL
\* with code 0, nothing parsed or executed; the REPL never ends with code 0
\* otherwise.
C16_ExitEndsRepl ==
    [][/\ ReplReadLine => (HasExit(buffer') <=> (repl' = "exited" /\ exit_code' = 0))
       /\ (ReplReadLine /\ HasExit(buffer')) => UNCHANGED <<pvars, evars>>
       /\ (exit_code' = 0 /\ exit_code # 0) => (ReplReadLine /\ HasExit(buffer'))
       /\ repl = "exited" => UNCHANGED vars]_vars

\* 'exit' typed on the line after an open '['
C16_Witness ==
    /\ repl = "exited"
    /\ exit_code = 0
    /\ buffer = <<"[", "-", Newline, "e", "x", "i", "t", Newline>>
    /\ presult = "IncompleteLoop"

\* ------------------------------------------------- parse called twice in a row
\* the text without its comment characters
Strip(text) == SelectSeq(text, LAMBDA r : r.c \in Commands)

\* the commands an IR stands for: Move(n) as n '>' or |n| '<', Add(n) as n
\* '+', Clear as [-], AddTo(x) as the move loop, Loop as [body]
RECURSIVE Render(_)
RenderOp(i) ==
    CASE i.op = "Move" -> Moves(i.n)
      [] i.op = "Add" -> Repeat("+", i.n)
      [] i.op = "Write" -> Text(<<".">>)
      [] i.op = "Read" -> Text(<<",">>)
      [] i.op = "Clear" -> Text(<<"[", "-", "]">>)
      [] i.op = "AddTo" -> IdiomText(<<>>, Moves(i.n), Moves(-i.n), <<>>)
      [] i.op = "Loop" -> Text(<<"[">>) \o Render(i.body) \o Text(<<"]">>)
Render(ir) == IF ir = <<>> THEN <<>> ELSE RenderOp(Head(ir)) \o Render(Tail(ir))

\* the caller has the result of parse(source) and calls parse(second)
Restart(second) ==
    /\ pass = 1
    /\ first' = [source |-> source, presult |-> presult, contexts |-> contexts]
    /\ pass' = 2
    /\ source' = second
    /\ rest' = second
    /\ contexts' = <<<<>>>>
    /\ presult' = "parsing"
    /\ UNCHANGED overflow_checks
    /\ UNCHANGED <<evars, jvars, envvars, replvars, clivars>>

\* parse(source), then parse of source without its comments
ParseStripped ==
    /\ presult \in {"Ok", "IncompleteLoop", "UnexpectedToken", "Panic"}
    /\ Restart(Strip(source))

\* parse(source) returned Ok(ir), then parse of the rendering of ir
ParseRendered ==
    /\ presult = "Ok"
    /\ Restart(Render(contexts[1]))

InitPass ==
    /\ overflow_checks \in BOOLEAN
    /\ source \in ParseSources
    /\ rest = source
    /\ contexts = <<<<>>>>
    /\ presult = "parsing"
    /\ ExecutorIdle
    /\ JitIdle
    /\ out_capacity = MaxOutput
    /\ assembler = "ok"
    /\ buffer = <<>>
    /\ prompt = ""
    /\ repl = "off"
    /\ lines_read = 0
    /\ diagnostics = 0
    /\ exit_code = -1
    /\ pass = 1
    /\ first = NoFirst
    /\ opts = NoOpts
    /\ mode = "unset"

StripNext == ParseNext \/ ParseStripped
RenderNext == ParseNext \/ ParseRendered

SpecStrip == InitPass /\ [][StripNext]_vars
SpecRender == InitPass /\ [][RenderNext]_vars

\* ---------------------------------------------------------------- C17
\* C17: parse of a text and parse of the same text without its comment
\* characters return the same: the same error, or the same IR.
C17_CommentsAreSkipped ==
    (pass = 2 /\ presult # "parsing")
        => /\ presult = first.presult
           /\ presult = "Ok" => contexts = first.contexts

\* '+c+c' and '++' both parse to Add(2)
C17_Witness ==
    /\ pass = 2
    /\ presult = "Ok"
    /\ first.source = Text(<<"+", "c", "+", "c">>)
    /\ source = Text(<<"+", "+">>)
    /\ contexts = <<<<Add(2)>>>>

\* ---------------------------------------------------------------- C18
\* Two IRs are taken as equivalent when they are equal after the rewriting
\* below, which keeps what a sequence does: Move(0) and Add(0) are dropped,
\* adjacent Move and adjacent Add are fused, a Loop whose body is an odd Add
\* is Clear, a Loop whose body is the move-cell body of an offset that is no
\* multiple of the tape size is AddTo, and a Loop, Clear or AddTo that comes
\* right after a Loop, Clear or AddTo (the current cell is 0 there) is dropped.
ZeroAfter == {"Loop", "Clear", "AddTo"}

NormPush(acc, i) ==
    IF i.op \in {"Move", "Add"} /\ i.n = 0 THEN acc
    ELSE IF acc # <<>> /\ i.op \in {"Move", "Add"} /\ Last(acc).op = i.op
    THEN LET n == IF i.op = "Add" THEN (Last(acc).n + i.n) % ByteRange
                  ELSE Last(acc).n + i.n
         IN IF n = 0 THEN Front(acc)
            ELSE Append(Front(acc), [Last(acc) EXCEPT !.n = n])
    ELSE IF acc # <<>> /\ i.op \in ZeroAfter /\ Last(acc).op \in ZeroAfter THEN acc
    ELSE Append(acc, i)

RECURSIVE Normal(_), NormalFrom(_, _)
NormalOp(i) ==
    IF i.op # "Loop" THEN i
    ELSE LET b == Normal(i.body)
         IN IF IsClearBody(b) THEN Clear
            ELSE IF IsAddToBody(b) /\ b[2].n % MEMORY_SIZE # 0 THEN AddTo(b[2].n)
            ELSE Loop(b)
NormalFrom(ir, acc) ==
    IF ir = <<>> THEN acc
    ELSE NormalFrom(Tail(ir), NormPush(acc, NormalOp(Head(ir))))
Normal(ir) == NormalFrom(ir, <<>>)

\* C18: when parse(source) returns an IR, parse of the rendering of that IR
\* returns an IR too, and the two are equivalent.
C18_ParseIsIdempotent ==
    (pass = 2 /\ presult # "parsing")
        => /\ presult = "Ok"
           /\ Normal(contexts[1]) = Normal(first.contexts[1])

\* ------------------------------------------------- hosts whose assembler fails
\* what dynasmrt::x64::Assembler::new() and self.code.finalize() can do
AssemblerOutcomes == {"ok", "new_fails", "finalize_fails"}

InitAsm ==
    /\ overflow_checks \in BOOLEAN
    /\ source = <<>>
    /\ rest = <<>>
    /\ contexts = <<<<>>>>
    /\ presult = "idle"
    /\ ExecutorIdle
    /\ JitIdle
    /\ out_capacity = MaxOutput
    /\ assembler \in AssemblerOutcomes
    /\ buffer = <<>>
    /\ prompt = ""
    /\ repl = "off"
    /\ lines_read = 0
    /\ diagnostics = 0
    /\ exit_code = -1
    /\ pass = 0
    /\ first = NoFirst
    /\ opts = NoOpts
    /\ mode = "unset"

SpecAsm == InitAsm /\ [][RunNext]_vars

\* ---------------------------------------------------------------- C19
\* C19: when the assembler cannot be set up or cannot be finalized, compile
\* and run end with a CompileError value and never with a panic, and the
\* generated code is not entered (no tape, no block run).
C19_AssemblerFailureIsCompileError ==
    (assembler # "ok" /\ jresult \notin {"idle", "compiled", "ParseError"})
        => /\ jresult = "CompileError"
           /\ jpc = 0
           /\ joutput = <<>>

\* ------------------------------------------------------- the command line
\* the programs of the command lines: ,>+<[->+<]>.   +[-]c+[>-<-]   [   ]
\* and 256 times '+'
MoveCellText == Text(<<",", ">", "+", "<", "[", "-", ">", "+", "<", "]", ">", ".">>)
LoopsText == Text(<<"+", "[", "-", "]", "c", "+", "[", ">", "-", "<", "-", "]">>)
OpenText == Text(<<"[">>)
CloseText == Text(<<"]">>)
CliPrograms == {MoveCellText, LoopsText, OpenText, CloseText, Repeat("+", ByteRange)}

\* a FILE that is absent, cannot be read, or holds a program; -e STRING; -i
CliFiles ==
    {NoFile, [given |-> TRUE, readable |-> FALSE, content |-> <<>>]}
    \cup {[given |-> TRUE, readable |-> TRUE, content |-> c] : c \in CliPrograms}
CliStrings == {NoString} \cup {[given |-> TRUE, content |-> c] : c \in CliPrograms}
CliOpts == [file : CliFiles, execute : CliStrings, interpreter : BOOLEAN]

\* (mutant: -e STRING is looked at before FILE)
GetMode_StringFirst(o) ==
    IF o.execute.given THEN [mode |-> "Executor", source |-> o.execute.content]
    ELSE IF o.file.given
    THEN IF o.file.readable THEN [mode |-> "Executor", source |-> o.file.content]
         ELSE [mode |-> "Err", source |-> <<>>]
    ELSE IF o.interpreter THEN [mode |-> "Interpreted", source |-> <<>>]
    ELSE [mode |-> "Err", source |-> <<>>]

\* get_mode: the file (read_to_string, or CLIError::IO), else the -e string,
\* else the interpreter, else CLIError::Cli
GetMode(o) ==
    IF o.file.given
    THEN IF o.file.readable THEN [mode |-> "Executor", source |-> o.file.content]
         ELSE [mode |-> "Err", source |-> <<>>]
    ELSE IF o.execute.given THEN [mode |-> "Executor", source |-> o.execute.content]
    ELSE IF o.interpreter THEN [mode |-> "Interpreted", source |-> <<>>]
    ELSE [mode |-> "Err", source |-> <<>>]

\* the process starts with a command line
InitCli ==
    /\ overflow_checks \in BOOLEAN
    /\ source = <<>>
    /\ rest = <<>>
    /\ contexts = <<<<>>>>
    /\ presult = "idle"
    /\ memory = EmptyTape
    /\ index = 0
    /\ input \in Inputs
    /\ output = <<>>
    /\ flushed = 0
    /\ stack = <<>>
    /\ memory0 = EmptyTape
    /\ index0 = 0
    /\ eresult = "idle"
    /\ JitIdle
    /\ out_capacity = MaxOutput
    /\ assembler = "ok"
    /\ buffer = <<>>
    /\ prompt = ""
    /\ repl = "off"
    /\ lines_read = 0
    /\ diagnostics = 0
    /\ exit_code = -1
    /\ pass = 0
    /\ first = NoFirst
    /\ opts \in CliOpts
    /\ mode = "unset"

\* main: match get_mode(): Err => eprintln!, exit(1); Mode::Executor(source) =>
\* parse(&source) is called; Mode::Interpreted => the REPL starts
Main ==
    /\ mode = "unset"
    /\ \E m \in {GetMode(opts)} :
          /\ mode' = m.mode
          /\ IF m.mode = "Err"
             THEN /\ diagnostics' = diagnostics + 1
                  /\ exit_code' = 1
                  /\ UNCHANGED <<source, rest, contexts, presult, repl>>
             ELSE IF m.mode = "Executor"
             THEN /\ source' = m.source
                  /\ rest' = m.source
                  /\ contexts' = <<<<>>>>
                  /\ presult' = "parsing"
                  /\ UNCHANGED <<diagnostics, exit_code, repl>>
             ELSE /\ repl' = "prompt"
                  /\ UNCHANGED <<source, rest, contexts, presult, diagnostics, exit_code>>
    /\ UNCHANGED <<overflow_checks, buffer, prompt, lines_read, opts>>
    /\ UNCHANGED <<evars, jvars, envvars, passvars>>

\* match parse(&source): Ok(instructions) => execute(instructions);
\* Err(err) => err.fail(), which is eprintln! and exit(1).  (A panic of parse
\* ends the process with code 101.)
MainDispatch ==
    /\ mode = "Executor"
    /\ exit_code = -1
    /\ eresult = "idle"
    /\ presult \in {"Ok", "IncompleteLoop", "UnexpectedToken", "Panic"}
    /\ IF presult = "Ok"
       THEN /\ stack' = ExecuteWithState(contexts[1])
            /\ eresult' = "running"
            /\ UNCHANGED <<diagnostics, exit_code>>
       ELSE IF presult = "Panic"
       THEN /\ exit_code' = 101
            /\ UNCHANGED <<stack, eresult, diagnostics>>
       ELSE /\ diagnostics' = diagnostics + 1
            /\ exit_code' = 1
            /\ UNCHANGED <<stack, eresult>>
    /\ UNCHANGED <<memory, index, input, output, flushed, memory0, index0>>
    /\ UNCHANGED <<buffer, prompt, repl, lines_read>>
    /\ UNCHANGED <<pvars, jvars, envvars, passvars, clivars>>

\* execute has returned: main ends (code 0), or the runtime error ends the
\* process with a diagnostic and code 1
MainExecuted ==
    /\ mode = "Executor"
    /\ exit_code = -1
    /\ eresult \in {"Ok", "RuntimeError"}
    /\ exit_code' = IF eresult = "Ok" THEN 0 ELSE 1
    /\ diagnostics' = IF eresult = "Ok" THEN diagnostics ELSE diagnostics + 1
    /\ UNCHANGED <<buffer, prompt, repl, lines_read>>
    /\ UNCHANGED <<pvars, evars, jvars, envvars, passvars, clivars>>

CliNext ==
    \/ Main
    \/ ParseNext
    \/ MainDispatch
    \/ ExecStep
    \/ MainExecuted

SpecCli == InitCli /\ [][CliNext]_vars

\* ---------------------------------------------------------------- C20
\* the command line names no program and no REPL, or a file that cannot be read
NothingToRun ==
    \/ opts.file.given /\ ~opts.file.readable
    \/ ~opts.file.given /\ ~opts.execute.given /\ ~opts.interpreter
\* the program of the command line did not parse
ProgramRejected == mode = "Executor" /\ presult \in {"IncompleteLoop", "UnexpectedToken"}
\* no opcode has run
NothingExecuted ==
    /\ eresult = "idle"
    /\ stack = <<>>
    /\ memory = EmptyTape
    /\ index = 0
    /\ output = <<>>

\* C20: once main has matched get_mode(): a readable FILE is the program
\* whatever -e and -i say; without FILE the -e STRING is the program; without
\* both, -i enters the REPL; with none of them, with an unreadable FILE, or
\* with a program that does not parse, no opcode is executed, and the process
\* goes on to print one diagnostic and to exit with code 1 (and it exits with
\* code 1 without having executed anything in these cases only).
C20_ModeSelection ==
    mode # "unset"
        => /\ (opts.file.given /\ opts.file.readable)
                => (mode = "Executor" /\ source = opts.file.content /\ repl = "off")
           /\ (~opts.file.given /\ opts.execute.given)
                => (mode = "Executor" /\ source = opts.execute.content /\ repl = "off")
           /\ (~opts.file.given /\ ~opts.execute.given /\ opts.interpreter)
                => (mode = "Interpreted" /\ repl = "prompt" /\ exit_code = -1)
           /\ NothingToRun <=> mode = "Err"
           /\ mode = "Err" => (exit_code = 1 /\ diagnostics = 1 /\ presult = "idle")
           /\ (mode = "Err" \/ ProgramRejected)
                => /\ NothingExecuted
                   /\ exit_code \in {-1, 1}
                   /\ exit_code = 1 <=> diagnostics = 1
                   /\ exit_code = -1 => ENABLED MainDispatch
           /\ (exit_code = 1 /\ NothingExecuted) => (mode = "Err" \/ ProgramRejected)

\* a FILE whose program does not parse, given together with -e and -i: the
\* process has printed its diagnostic and left with code 1
C20_Witness ==
    /\ opts.file.given
    /\ opts.file.content = OpenText
    /\ opts.execute.given
    /\ opts.execute.content = MoveCellText
    /\ opts.interpreter
    /\ presult = "IncompleteLoop"
    /\ exit_code = 1
    /\ diagnostics = 1
    /\ NothingExecuted

\* ---------------------------------------------------------------- C21
\* the body a ']' closes, the context it is appended to, and what that
\* context gains
ClosedBody == Last(contexts)
Enclosing == contexts[Len(contexts) - 1]
ClosesLoop == ParseClose /\ presult' = "parsing" /\ Len(contexts) > 1
Emitted == SubSeq(contexts'[Len(contexts')], Len(Enclosing) + 1, Len(contexts'[Len(contexts')]))
OneOddAdd(b) == Len(b) = 1 /\ b[1].op = "Add" /\ b[1].n % 2 = 1
MoveCellBody(b) ==
    /\ Len(b) = 4
    /\ b[1].op = "Add" /\ b[1].n = 255
    /\ b[2].op = "Move"
    /\ b[3].op = "Add" /\ b[3].n = 1
    /\ b[4].op = "Move"
    /\ b[2].n = -b[4].n

\* C21: a ']' that closes a loop emits Clear in place of the loop exactly
\* when the closed body is one Add(n) with n odd; a body that is [Add(n)]
\* with n even, empty, or no idiom at all is emitted as Loop(body), the body
\* as it was, and nothing else is emitted.
C21_ClearOnlyForOddAdd ==
    [][ClosesLoop =>
          /\ Len(contexts') = Len(contexts) - 1
          /\ SubSeq(contexts'[Len(contexts')], 1, Len(Enclosing)) = Enclosing
          /\ (Emitted = <<Clear>>) <=> OneOddAdd(ClosedBody)
          /\ (\E k \in 1..Len(Emitted) : Emitted[k] = Clear) <=> OneOddAdd(ClosedBody)
          /\ (~OneOddAdd(ClosedBody) /\ ~MoveCellBody(ClosedBody))
                => Emitted = <<Loop(ClosedBody)>>]_vars

\* [++] has been parsed: the body is one even Add and the loop is kept
C21_Witness ==
    /\ presult = "Ok"
    /\ contexts = <<<<Loop(<<Add(2)>>)>>>>

\* ------------------------------------------------- programs that never end
\* +[]   +[[-]+]   +[+-]   +[>[-]<]: a loop entered on a cell that is not 0,
\* whose body does no I/O and leaves that cell as it was
ForeverTexts ==
    {ForeverText,
     Text(<<"+", "[", "[", "-", "]", "+", "]">>),
     Text(<<"+", "[", "+", "-", "]">>),
     Text(<<"+", "[", ">", "[", "-", "]", "<", "]">>)}
ForeverJobs ==
    RunJobs \cup {[text |-> t, input |-> i, capacity |-> MaxOutput] :
                     t \in ForeverTexts, i \in Inputs}
CallForever == CallBackends(ForeverJobs)
ForeverNext == CallForever \/ ParseNext \/ ExecNext \/ JitNext
SpecForever == InitRun /\ [][ForeverNext]_vars

\* ---------------------------------------------------------------- C22
ExecutorEnded == eresult \notin {"idle", "running"}
JitEnded == jresult \notin {"idle", "compiled", "running"}

\* C22: +[] (and each program of ForeverTexts) never ends in either backend,
\* neither with Ok nor with an error.  In general a Loop tested on a cell
\* that is not 0 runs its body (again), a run leaves a Loop only on a cell
\* that is 0, and a run ends only at the end of the program or with the error
\* of a Write or a Read.
C22_LoopRunsForever ==
    /\ [](source \in ForeverTexts => (~ExecutorEnded /\ ~JitEnded))
    /\ [][/\ (Executing("Loop") /\ stack' # stack /\ Cell(memory, index) # 0)
               => (/\ stack' = Append(stack, [code |-> Current.body, pc |-> 1])
                   /\ eresult' = "running")
          /\ (eresult = "running" /\ eresult' # "running")
               => \/ eresult' = "Ok" /\ Len(stack) = 1 /\ AtEnd
                  \/ eresult' = "RuntimeError" /\ ~AtEnd /\ Current.op \in {"Write", "Read"}
          /\ (JitAt("LoopHead") /\ jpc' # jpc /\ Cell(jmemory, r13) # 0)
               => (jpc' = jpc + 1 /\ jresult' = "running")
          /\ (JitAt("LoopTail") /\ jpc' # jpc /\ Cell(jmemory, r13) # 0)
               => (jpc' < jpc /\ jcode[jpc'].op = "LoopHead" /\ jresult' = "running")
          /\ (jresult = "running" /\ jresult' # "running")
               => \/ jresult' = "Ok" /\ jpc = Len(jcode) + 1
                  \/ jresult' = "RuntimeError" /\ jcode[jpc].op \in {"Write", "Read"}]_vars

\* both backends are inside the loop of +[] with the cell at 1: the Executor
\* at the end of the body, the generated code at the test after the body
C22_Witness ==
    /\ source = ForeverText
    /\ eresult = "running"
    /\ Len(stack) = 2
    /\ AtEnd
    /\ Cell(memory, index) = 1
    /\ jresult = "running"
    /\ jpc = 3
    /\ Cell(jmemory, r13) = 1

\* ---------------------------------------------------------------- C23
\* the test blocks of the generated code between two positions, and the
\* bottom test that belongs to the top test at h (the first one after h at
\* which as many loops are closed as were opened)
HeadsIn(a, b) == {k \in a..b : jcode[k].op = "LoopHead"}
TailsIn(a, b) == {k \in a..b : jcode[k].op = "LoopTail"}
Balanced(h, t) == Cardinality(HeadsIn(h, t)) = Cardinality(TailsIn(h, t))
BottomOf(h) == CHOOSE t \in h + 1..Len(jcode) :
                  /\ Balanced(h, t)
                  /\ \A u \in h..t - 1 : ~Balanced(h, u)
TopOf(t) == CHOOSE h \in 1..t - 1 : jcode[h].op = "LoopHead" /\ BottomOf(h) = t
LoopBlocks == HeadsIn(1, Len(jcode)) \cup TailsIn(1, Len(jcode))
RECURSIVE HasAddTo(_)
HasAddTo(ir) == \E k \in 1..Len(ir) : \/ ir[k].op = "AddTo"
                                      \/ (ir[k].op = "Loop" /\ HasAddTo(ir[k].body))

\* C23: in the generated code every loop has its own two labels, the top
\* test of a loop jumps just past the bottom test of the same loop when the
\* cell under the pointer is 0 and goes into the body otherwise, the bottom
\* test jumps to the top of the same loop when the cell under the pointer
\* (as the body left it) is not 0 and goes on otherwise; and a program
\* without AddTo that both backends finish leaves the same tape, pointer and
\* output in both.
C23_LoopLoweringIsWhile ==
    /\ [](jresult \in {"compiled", "running", "Ok", "RuntimeError"}
            => /\ \A a, b \in LoopBlocks : a # b => jcode[a].label # jcode[b].label
               /\ \A h \in HeadsIn(1, Len(jcode)) :
                     /\ jlabels[jcode[h].label] = BottomOf(h) + 1
                     /\ jlabels[jcode[BottomOf(h)].label] = h)
    /\ []((jresult = "Ok" /\ eresult = "Ok" /\ ~HasAddTo(contexts[1]))
            => /\ jmemory = memory
               /\ r13 = index
               /\ joutput = output)
    /\ [][/\ (JitAt("LoopHead") /\ jpc' # jpc)
               => jpc' = IF Cell(jmemory, r13) = 0 THEN BottomOf(jpc) + 1 ELSE jpc + 1
          /\ (JitAt("LoopTail") /\ jpc' # jpc)
               => jpc' = IF Cell(jmemory, r13) # 0 THEN TopOf(jpc) ELSE jpc + 1
          /\ (JitAt("LoopHead") \/ JitAt("LoopTail"))
               => (jmemory' = jmemory /\ r13' = r13 /\ jresult' = "running")]_vars

\* +[[->]<]. is over in the generated code: the inner loop was left with the
\* pointer on cell 1, the outer loop after the pointer came back to cell 0
C23_Witness ==
    /\ source = NestedText
    /\ jresult = "Ok"
    /\ Cardinality(HeadsIn(1, Len(jcode))) = 2
    /\ r13 = 0
    /\ joutput = <<0>>

\* ---------------------------------------------------------------- C24
\* The source commands executed one at a time on the circular tape: st is the
\* position in the text, the tape, the pointer, the input left and the
\* output.  (A run of k equal '>', '<', '+' or '-' is k single steps and is
\* taken at once; the brackets and the I/O commands of the texts stand alone.)
OpensIn(prog, a, b) == {k \in a..b : prog[k].c = "["}
ClosesIn(prog, a, b) == {k \in a..b : prog[k].c = "]"}
Paired(prog, h, t) == Cardinality(OpensIn(prog, h, t)) = Cardinality(ClosesIn(prog, h, t))
CloseOf(prog, h) == CHOOSE t \in h + 1..Len(prog) :
                       /\ Paired(prog, h, t)
                       /\ \A u \in h..t - 1 : ~Paired(prog, h, u)
OpenOf(prog, t) == CHOOSE h \in 1..t - 1 : prog[h].c = "[" /\ CloseOf(prog, h) = t

\* one command (one run of equal moves or adds)
RefStep(prog, cap, st) ==
    IF st.pc > Len(prog) THEN [st EXCEPT !.result = "Ok"]
    ELSE LET c == prog[st.pc].c
             k == prog[st.pc].k
             cell == Cell(st.memory, st.index)
             next == [st EXCEPT !.pc = @ + 1]
         IN CASE c = ">" -> [next EXCEPT !.index = (@ + k) % MEMORY_SIZE]
              [] c = "<" -> [next EXCEPT !.index = (@ - k) % MEMORY_SIZE]
              [] c = "+" -> [next EXCEPT !.memory = Store(@, st.index, (cell + k) % ByteRange)]
              [] c = "-" -> [next EXCEPT !.memory = Store(@, st.index, (cell - k) % ByteRange)]
              [] c = "." -> IF Len(st.output) < cap
                            THEN [next EXCEPT !.output = Append(@, cell)]
                            ELSE [st EXCEPT !.result = "RuntimeError"]
              [] c = "," -> IF st.input # <<>>
                            THEN [next EXCEPT !.memory = Store(@, st.index, Head(st.input)),
                                              !.input = Tail(@)]
                            ELSE [st EXCEPT !.result = "RuntimeError"]
              [] c = "[" -> IF cell = 0 THEN [st EXCEPT !.pc = CloseOf(prog, st.pc) + 1]
                            ELSE next
              [] c = "]" -> IF cell = 0 THEN next
                            ELSE [st EXCEPT !.pc = OpenOf(prog, st.pc) + 1]
              [] OTHER -> next

\* n commands, or fewer when the text ends or fails before
RECURSIVE RefSteps(_, _, _, _)
RefSteps(prog, cap, st, n) ==
    IF n = 0 \/ st.result # "running" THEN st
    ELSE IF n = 1 THEN RefStep(prog, cap, st)
    ELSE CHOOSE out \in {RefSteps(prog, cap, mid, n - (n \div 2)) :
                            mid \in {RefSteps(prog, cap, st, n \div 2)}} : TRUE

\* commands executed before the run is given up
RefFuel == 2048
\* a run that is not over after RefFuel commands and is then in a state it
\* comes back to runs forever
RefPeriods == 1..16
Reference(text, cap, mem, idx, inp) ==
    LET start == [pc |-> 1, memory |-> mem, index |-> idx, input |-> inp, output |-> <<>>,
                  result |-> "running"]
    IN CHOOSE out \in
          {IF late.result # "running" THEN late
           ELSE IF \E j \in RefPeriods : RefSteps(text, cap, late, j) = late
           THEN [late EXCEPT !.result = "Forever"]
           ELSE [late EXCEPT !.result = "Unknown"] :
              late \in {RefSteps(text, cap, start, RefFuel)}} : TRUE

\* the inputs the call can have started with, given the input that is left
StartInputs == {i \in Inputs : /\ Len(i) >= Len(input)
                               /\ SubSeq(i, Len(i) - Len(input) + 1, Len(i)) = input}

\* C24: when execute has ended on a source that parses, the source commands
\* executed one at a time from the same tape, pointer and input end the same
\* way (Ok, or the same error) with the same output and input left, and after
\* Ok with the same tape and pointer; they do not run forever.
C24_RewritesPreserveBehaviour ==
    (presult = "Ok" /\ eresult \in {"Ok", "RuntimeError"})
        => \E i \in StartInputs :
              \E r \in {Reference(source, out_capacity, memory0, index0, i)} :
                 /\ r.result = eresult
                 /\ r.output = output
                 /\ r.input = input
                 /\ eresult = "Ok" => (r.memory = memory /\ r.index = index)

\* ------------------------------------------- texts that parse rejects
\* .]   ,[   +.,[   .,]   [.,   +[.]]: a bracket error after commands that
\* would write and read
RejectedTexts ==
    {Text(<<".", "]">>), Text(<<",", "[">>), Text(<<"+", ".", ",", "[">>),
     Text(<<".", ",", "]">>), Text(<<"[", ".", ",">>),
     Text(<<"+", "[", ".", "]", "]">>)}
RejectedJobs ==
    RunJobs \cup {[text |-> t, input |-> i, capacity |-> MaxOutput] :
                     t \in RejectedTexts, i \in Inputs}

\* an Executor that earlier calls have used (a tape with two non-zero cells,
\* the pointer at either end of the tape or next to it), nothing compiled
InitRejected ==
    /\ overflow_checks \in BOOLEAN
    /\ source = <<>>
    /\ rest = <<>>
    /\ contexts = <<<<>>>>
    /\ presult = "idle"
    /\ \E p \in Pointers : /\ index = p
                           /\ memory = TwoCells(p, 5, 1, 9)
    /\ input = <<>>
    /\ output = <<>>
    /\ flushed = 0
    /\ stack = <<>>
    /\ memory0 = memory
    /\ index0 = index
    /\ eresult = "idle"
    /\ JitIdle
    /\ HostIdle

CallRejected == CallBackends(RejectedJobs)
RejectedNext == CallRejected \/ ParseNext \/ ExecNext \/ JitNext
SpecRejected == InitRejected /\ [][RejectedNext]_vars

\* ---------------------------------------------------------------- C25
ParseFailed == presult \in {"IncompleteLoop", "UnexpectedToken"}

\* C25: while parse reads the text, and ever after when it has returned a
\* ParseError, nothing runs: execute and compile return ParseError, no byte is
\* written, no byte of the input is taken, the Executor's tape and pointer are
\* as before the call, and no code is generated or entered.
C25_NothingRunsOnParseError ==
    /\ []((presult = "parsing" \/ ParseFailed)
            => /\ eresult \in {"idle", "ParseError"}
               /\ jresult \in {"idle", "ParseError"}
               /\ stack = <<>>
               /\ output = <<>> /\ flushed = 0
               /\ joutput = <<>> /\ jflushed = 0
               /\ input = jinput
               /\ memory = memory0 /\ index = index0
               /\ jcode = <<>> /\ jpc = 0 /\ jmemory = EmptyTape)
    /\ [][ParseFailed' =>
             UNCHANGED <<memory, index, input, output, flushed,
                         jmemory, r13, jinput, joutput, jflushed, jcode>>]_vars
    /\ [][(ParseFailed /\ eresult' # eresult) => eresult' = "ParseError"]_vars
    /\ [][(ParseFailed /\ jresult' # jresult) => jresult' = "ParseError"]_vars

\* +.,[ was handed to both backends with one input byte and a used tape: both
\* have returned ParseError, the byte is still there, nothing was written
C25_Witness ==
    /\ source = Text(<<"+", ".", ",", "[">>)
    /\ presult = "IncompleteLoop"
    /\ eresult = "ParseError"
    /\ jresult = "ParseError"
    /\ input = <<255>>
    /\ output = <<>>
    /\ joutput = <<>>
    /\ index = 29999
    /\ memory = TwoCells(29999, 5, 1, 9)

====
